---- MODULE Spec2Model ----
(***************************************************************************)
(* CaptureDevice (src/src/CaptureDevice.cpp): a value object wrapping one  *)
(* struct tis_device_info { type, identifier, name, serial_number }.       *)
(* The text members are fixed-capacity char arrays; the text accessors     *)
(* convert them with the std::string C-string constructor, which reads to *)
(* the first NUL byte.                                                     *)
(***************************************************************************)
EXTENDS Integers, Sequences, FiniteSets, TLC

\* ---------------------------------------------------------------- bounds
\* capacity of each char array of tis_device_info
FieldCap == 2
\* largest enumeration value a caller supplies (values above 3 are out of range)
MaxType == 4
\* how many bytes past the end of the object an unterminated read may collect
MaxOver == 1

\* ----------------------------------------------------- enumeration values
TIS_DEVICE_TYPE_UNKNOWN == 0
TIS_DEVICE_TYPE_V4L2 == 1
TIS_DEVICE_TYPE_ARAVIS == 2
TIS_DEVICE_TYPE_FIREWIRE == 3

\* ------------------------------------------------------------------ data
\* a byte: 0 is NUL, 1 stands for a non-zero character
Byte == {0, 1}
NonZero == Byte \ {0}
TypeValue == 0..MaxType
Field == [1..FieldCap -> Byte]

\* struct tis_device_info
tis_device_info ==
  [type : TypeValue, identifier : Field, name : Field, serial_number : Field]

\* the descriptor objects of the program
Descs == {"a", "b", "c"}
One == {"a"}

\* a char array holding the C string s, zero padded
Txt(s) == [i \in 1..FieldCap |-> IF i <= Len(s) THEN s[i] ELSE 0]
\* a char array with no NUL byte anywhere
Full == [i \in 1..FieldCap |-> 1]
ZeroField == [i \in 1..FieldCap |-> 0]

\* records a discovery subsystem hands over in the several-descriptor runs
SmallRecords ==
  { [type |-> TIS_DEVICE_TYPE_V4L2, identifier |-> Txt(<<1>>),
     name |-> Full, serial_number |-> ZeroField],
    [type |-> MaxType, identifier |-> Full,
     name |-> ZeroField, serial_number |-> Full] }

\* what the storage of a descriptor shows before a constructor has run
Garbage ==
  [type |-> TIS_DEVICE_TYPE_FIREWIRE, identifier |-> Full,
   name |-> Txt(<<1>>), serial_number |-> Full]

VARIABLES
  device,   \* device[d]: the member `device` of descriptor d
  live,     \* live[d]: d has been constructed
  how,      \* how[d]: "none", "record", "default" or "assigned"
  origin,   \* origin[d]: the record d was constructed with / last assigned from
  copy,     \* what the caller holds from the last getInfo (of descriptor copy.of)
  last      \* the last call and what it returned

vars == <<device, live, how, origin, copy, last>>

\* ------------------------------------------------------- the code, as operators
\* memset(array, value, sizeof(array))
memset(arr, v) == [i \in DOMAIN arr |-> v]

\* the implicit member-wise copy of struct tis_device_info
StructCopy(rec) ==
  [type |-> rec.type, identifier |-> rec.identifier,
   name |-> rec.name, serial_number |-> rec.serial_number]

\* variant: the constructor copies the texts strncpy-style, forcing a final NUL
CaptureDeviceFromTerminated(device_desc) ==
  [type |-> device_desc.type,
   identifier |-> [device_desc.identifier EXCEPT ![FieldCap] = 0],
   name |-> [device_desc.name EXCEPT ![FieldCap] = 0],
   serial_number |-> [device_desc.serial_number EXCEPT ![FieldCap] = 0]]

\* CaptureDevice::CaptureDevice (const struct tis_device_info& device_desc)
CaptureDeviceFrom(device_desc) == StructCopy(device_desc)

\* variant: the default constructor forgets the memset of serial_number
CaptureDeviceDefaultNoSerial(mem) ==
  [type |-> TIS_DEVICE_TYPE_UNKNOWN,
   identifier |-> memset(mem.identifier, 0),
   name |-> memset(mem.name, 0),
   serial_number |-> mem.serial_number]

\* CaptureDevice::CaptureDevice (): `mem` is what the storage held before
CaptureDeviceDefault(mem) ==
  [type |-> TIS_DEVICE_TYPE_UNKNOWN,
   identifier |-> memset(mem.identifier, 0),
   name |-> memset(mem.name, 0),
   serial_number |-> memset(mem.serial_number, 0)]

\* variant: the assignment copies in the wrong direction
operatorAssignReversed(m, this, other) ==
  [mem |-> [m EXCEPT ![other] = StructCopy(m[this])], ret |-> this]

\* variant: the assignment copies member by member and forgets serial_number
operatorAssignPartial(m, this, other) ==
  [mem |-> [m EXCEPT ![this] = [StructCopy(m[other]) EXCEPT
                                  !.serial_number = m[this].serial_number]],
   ret |-> this]

\* CaptureDevice::operator= on the store m: copies other's record into this,
\* returns *this
operatorAssign(m, this, other) ==
  [mem |-> [m EXCEPT ![this] = StructCopy(m[other])], ret |-> this]

\* variant: getInfo returns a reference to the member instead of a copy
getInfoByRef(m, d) == [held |-> TRUE, of |-> d, byref |-> TRUE, val |-> m[d]]

\* CaptureDevice::getInfo: returns the struct of descriptor d by value
getInfo(m, d) == [held |-> TRUE, of |-> d, byref |-> FALSE, val |-> StructCopy(m[d])]

\* bytes a read may collect past the end of the object
Overrun == UNION {[1..n -> NonZero] : n \in 0..MaxOver}

\* index of the first NUL byte of arr (arr holds one)
FirstNul(arr) == CHOOSE i \in DOMAIN arr : arr[i] = 0 /\ \A j \in 1..(i-1) : arr[j] # 0

\* the bytes of the object from the first byte of a member to the end of the
\* object; the members lie in the order identifier, name, serial_number
FromIdentifier(rec) == rec.identifier \o rec.name \o rec.serial_number
FromName(rec) == rec.name \o rec.serial_number
FromSerial(rec) == rec.serial_number

\* std::string(const char*) on a pointer into the object, bytes being what lies
\* from there to the end of the object: the bytes before the first NUL; with no
\* NUL up to the end of the object the read leaves the object (undefined
\* behaviour): it collects what follows, or faults
StdString(bytes) ==
  IF \E i \in DOMAIN bytes : bytes[i] = 0
  THEN {[ok |-> TRUE, str |-> SubSeq(bytes, 1, FirstNul(bytes) - 1)]}
  ELSE {[ok |-> TRUE, str |-> bytes \o t] : t \in Overrun}
       \cup {[ok |-> FALSE, str |-> <<>>]}

getName(rec) == StdString(FromName(rec))
getSerial(rec) == StdString(FromSerial(rec))
getIdentifier(rec) == StdString(FromIdentifier(rec))

\* variant: out-of-range values are reported as UNKNOWN
getDeviceTypeClamped(rec) ==
  IF rec.type > TIS_DEVICE_TYPE_FIREWIRE THEN TIS_DEVICE_TYPE_UNKNOWN ELSE rec.type

getDeviceType(rec) == rec.type

\* variant: the switch has a name for the values it does not know
getDeviceTypeAsStringNamed(rec) ==
  CASE rec.type = TIS_DEVICE_TYPE_V4L2 -> "V4L2"
    [] rec.type = TIS_DEVICE_TYPE_ARAVIS -> "Aravis"
    [] rec.type = TIS_DEVICE_TYPE_FIREWIRE -> "Firewire"
    [] OTHER -> "Unknown"

getDeviceTypeAsString(rec) ==
  CASE rec.type = TIS_DEVICE_TYPE_V4L2 -> "V4L2"
    [] rec.type = TIS_DEVICE_TYPE_ARAVIS -> "Aravis"
    [] rec.type = TIS_DEVICE_TYPE_FIREWIRE -> "Firewire"
    [] OTHER -> ""

\* ------------------------------------------------------------------ state
NoCall ==
  [op |-> "none", d |-> "a", o |-> "a", o2 |-> "a",
   ok |-> TRUE, str |-> <<>>, ty |-> 0, text |-> ""]

Call(op, d) == [NoCall EXCEPT !.op = op, !.d = d]

NoCopy ==
  [held |-> FALSE, of |-> "a", byref |-> FALSE, val |-> Garbage]

InitCommon ==
  /\ live = [d \in Descs |-> FALSE]
  /\ how = [d \in Descs |-> "none"]
  /\ copy = NoCopy
  /\ last = NoCall

Init ==
  /\ device = [d \in Descs |-> Garbage]
  /\ origin = device
  /\ InitCommon

\* what the caller holds after the store changed to newdev: a value stays as it
\* is, a reference shows the record it refers to
SyncCopy(newdev) ==
  IF copy.byref THEN [copy EXCEPT !.val = newdev[copy.of]] ELSE copy

\* ---------------------------------------------------------------- actions
\* CaptureDevice d(r), for a record r of the set R
Construct(d, R) ==
  /\ ~live[d]
  /\ \E r \in R :
       /\ device' = [device EXCEPT ![d] = CaptureDeviceFrom(r)]
       /\ origin' = [origin EXCEPT ![d] = r]
  /\ live' = [live EXCEPT ![d] = TRUE]
  /\ how' = [how EXCEPT ![d] = "record"]
  /\ last' = Call("construct", d)
  /\ UNCHANGED copy

\* CaptureDevice d; the member is default-initialized before the body runs and
\* holds an indeterminate value mem of the set R then
ConstructDefault(d, R) ==
  /\ ~live[d]
  /\ \E mem \in R : device' = [device EXCEPT ![d] = CaptureDeviceDefault(mem)]
  /\ live' = [live EXCEPT ![d] = TRUE]
  /\ how' = [how EXCEPT ![d] = "default"]
  /\ origin' = [origin EXCEPT ![d] = device'[d]]
  /\ last' = Call("default", d)
  /\ UNCHANGED copy

\* d = o;
Assign(d, o) ==
  /\ live[d] /\ live[o]
  /\ LET s == operatorAssign(device, d, o) IN
       /\ device' = s.mem
       /\ copy' = SyncCopy(s.mem)
  /\ how' = [how EXCEPT ![d] = "assigned"]
  /\ origin' = [origin EXCEPT ![d] = device[o]]
  /\ last' = [Call("assign", d) EXCEPT !.o = o]
  /\ UNCHANGED live

\* a = (b = c);  the outer assignment reads what the inner one returned
ChainAssign(a, b, c) ==
  /\ live[a] /\ live[b] /\ live[c]
  /\ LET s1 == operatorAssign(device, b, c)
         s2 == operatorAssign(s1.mem, a, s1.ret) IN
       /\ device' = s2.mem
       /\ copy' = SyncCopy(s2.mem)
       /\ origin' = [[origin EXCEPT ![b] = device[c]] EXCEPT ![a] = s1.mem[s1.ret]]
  /\ how' = [[how EXCEPT ![b] = "assigned"] EXCEPT ![a] = "assigned"]
  /\ last' = [Call("chain", a) EXCEPT !.o = b, !.o2 = c]
  /\ UNCHANGED live

GetInfo(d) ==
  /\ live[d]
  /\ copy' = getInfo(device, d)
  /\ last' = Call("getInfo", d)
  /\ UNCHANGED <<device, live, how, origin>>

GetName(d) ==
  /\ live[d]
  /\ \E res \in getName(device[d]) :
       last' = [Call("getName", d) EXCEPT !.ok = res.ok, !.str = res.str]
  /\ UNCHANGED <<device, live, how, origin, copy>>

GetSerial(d) ==
  /\ live[d]
  /\ \E res \in getSerial(device[d]) :
       last' = [Call("getSerial", d) EXCEPT !.ok = res.ok, !.str = res.str]
  /\ UNCHANGED <<device, live, how, origin, copy>>

GetIdentifier(d) ==
  /\ live[d]
  /\ \E res \in getIdentifier(device[d]) :
       last' = [Call("getIdentifier", d) EXCEPT !.ok = res.ok, !.str = res.str]
  /\ UNCHANGED <<device, live, how, origin, copy>>

GetDeviceType(d) ==
  /\ live[d]
  /\ last' = [Call("getDeviceType", d) EXCEPT !.ty = getDeviceType(device[d])]
  /\ UNCHANGED <<device, live, how, origin, copy>>

GetDeviceTypeAsString(d) ==
  /\ live[d]
  /\ last' = [Call("getDeviceTypeAsString", d) EXCEPT
                !.text = getDeviceTypeAsString(device[d])]
  /\ UNCHANGED <<device, live, how, origin, copy>>

\* the caller overwrites the record it got from getInfo
MutateCopy(r) ==
  /\ copy.held
  /\ r # copy.val
  /\ copy' = [copy EXCEPT !.val = r]
  /\ device' = IF copy.byref THEN [device EXCEPT ![copy.of] = r] ELSE device
  /\ last' = Call("mutate", copy.of)
  /\ UNCHANGED <<live, how, origin>>

Next ==
  \/ \E d \in Descs : Construct(d, SmallRecords)
  \/ \E d \in Descs : ConstructDefault(d, SmallRecords)
  \/ \E d \in Descs, o \in Descs : Assign(d, o)
  \/ \E a \in Descs, b \in Descs, c \in Descs : ChainAssign(a, b, c)
  \/ \E d \in Descs : GetInfo(d)
  \/ \E d \in Descs : GetName(d)
  \/ \E d \in Descs : GetSerial(d)
  \/ \E d \in Descs : GetIdentifier(d)
  \/ \E d \in Descs : GetDeviceType(d)
  \/ \E d \in Descs : GetDeviceTypeAsString(d)
  \/ \E r \in SmallRecords : MutateCopy(r)

\* several descriptors, records from SmallRecords
Spec == Init /\ [][Next]_vars

NextRecord ==
  \/ \E d \in One : Construct(d, tis_device_info)
  \/ \E d \in One : ConstructDefault(d, tis_device_info)
  \/ \E d \in One, o \in One : Assign(d, o)
  \/ \E a \in One, b \in One, c \in One : ChainAssign(a, b, c)
  \/ \E d \in One : GetInfo(d)
  \/ \E d \in One : GetName(d)
  \/ \E d \in One : GetSerial(d)
  \/ \E d \in One : GetIdentifier(d)
  \/ \E d \in One : GetDeviceType(d)
  \/ \E d \in One : GetDeviceTypeAsString(d)
  \/ \E r \in SmallRecords : MutateCopy(r)

\* one descriptor, every record
SpecRecord == Init /\ [][NextRecord]_vars

TypeOK ==
  /\ device \in [Descs -> tis_device_info]
  /\ live \in [Descs -> BOOLEAN]
  /\ copy.val \in tis_device_info

\* ------------------------------------------------------------- properties
TextOps == {"getName", "getSerial", "getIdentifier"}
Accessors == TextOps \cup {"getInfo", "getDeviceType", "getDeviceTypeAsString"}

\* the array a text accessor reads
FieldOf(op, rec) ==
  CASE op = "getName" -> rec.name
    [] op = "getSerial" -> rec.serial_number
    [] op = "getIdentifier" -> rec.identifier

\* the text a char array holds: its bytes before the first NUL, all of them if
\* it holds none
CText(arr) ==
  IF \E i \in DOMAIN arr : arr[i] = 0
  THEN SubSeq(arr, 1, FirstNul(arr) - 1)
  ELSE SubSeq(arr, 1, FieldCap)

FieldEqual(x, y) ==
  /\ x.type = y.type
  /\ x.identifier = y.identifier
  /\ x.name = y.name
  /\ x.serial_number = y.serial_number

\* C1: constructing a descriptor from a record r and calling getInfo returns a
\* record equal to r in every field, whatever r holds (no normalization,
\* validation or truncation).
C1_ConstructGetInfo ==
  (last.op = "getInfo" /\ how[last.d] = "record")
    => FieldEqual(copy.val, origin[last.d])

\* C1 witness: getInfo on a descriptor constructed from a record with an
\* out-of-range type and a name without a NUL byte.
C1_Witness ==
  /\ last.op = "getInfo"
  /\ how[last.d] = "record"
  /\ origin[last.d].type = MaxType
  /\ origin[last.d].name = Full
  /\ copy.val = origin[last.d]

\* C2: after default construction the record has type UNKNOWN and all-zero text
\* arrays, whatever the storage held before; getDeviceType returns UNKNOWN and
\* getName, getSerial, getIdentifier and getDeviceTypeAsString return the empty
\* string.
C2_DefaultConstructed ==
  /\ \A d \in Descs : how[d] = "default" =>
       /\ device[d].type = TIS_DEVICE_TYPE_UNKNOWN
       /\ device[d].identifier = ZeroField
       /\ device[d].name = ZeroField
       /\ device[d].serial_number = ZeroField
  /\ how[last.d] = "default" =>
       /\ last.op \in TextOps => (last.ok /\ last.str = <<>>)
       /\ last.op = "getDeviceType" => last.ty = TIS_DEVICE_TYPE_UNKNOWN
       /\ last.op = "getDeviceTypeAsString" => last.text = ""

\* C2 witness: getSerial on a default-constructed descriptor.
C2_Witness ==
  /\ how["a"] = "default"
  /\ last.op = "getSerial"
  /\ last.d = "a"
  /\ last.str = <<>>

\* C3: after d = other, d.getInfo() is field-equal to other.getInfo(), and an
\* assignment to one descriptor changes the record of no other descriptor (so a
\* later assignment to other leaves d as it is).
C3_AssignCopies ==
  [][ last'.op = "assign" =>
        /\ FieldEqual(getInfo(device', last'.d).val, getInfo(device', last'.o).val)
        /\ FieldEqual(device'[last'.d], device[last'.o])
        /\ \A e \in Descs \ {last'.d} : device'[e] = device[e] ]_vars

\* C3 witness: an assignment to some x has just run while another descriptor,
\* itself assigned earlier, holds a record different from x's.
C3_Witness ==
  /\ last.op = "assign"
  /\ last.d # last.o
  /\ device[last.d] = device[last.o]
  /\ \E e \in Descs \ {last.d, last.o} :
       /\ how[e] = "assigned"
       /\ device[e] # device[last.d]

\* C4: getDeviceTypeAsString depends on the type alone: "V4L2" for V4L2,
\* "Aravis" for ARAVIS, "Firewire" for FIREWIRE, "" for UNKNOWN and every other
\* value.
C4_TypeString ==
  last.op = "getDeviceTypeAsString" =>
    LET t == device[last.d].type IN
      /\ t = TIS_DEVICE_TYPE_V4L2 => last.text = "V4L2"
      /\ t = TIS_DEVICE_TYPE_ARAVIS => last.text = "Aravis"
      /\ t = TIS_DEVICE_TYPE_FIREWIRE => last.text = "Firewire"
      /\ t = TIS_DEVICE_TYPE_UNKNOWN => last.text = ""
      /\ t > TIS_DEVICE_TYPE_FIREWIRE => last.text = ""

\* C4 witness: the string of an out-of-range type value, on a record whose text
\* arrays are not empty.
C4_Witness ==
  /\ last.op = "getDeviceTypeAsString"
  /\ device[last.d].type = MaxType
  /\ device[last.d].name = Full
  /\ last.text = ""

\* C5: getName, getSerial and getIdentifier return the text of the name,
\* serial_number and identifier array of the wrapped record, the same text
\* getInfo exposes in that member, and the empty string for a descriptor that
\* was default-constructed.
C5_TextAccessors ==
  last.op \in TextOps =>
    /\ last.ok
    /\ last.str = CText(FieldOf(last.op, getInfo(device, last.d).val))
    /\ how[last.d] = "default" => last.str = <<>>

\* C6: getDeviceType returns the type value of the wrapped record as it is; for
\* a descriptor constructed from r it is r.type, out-of-range values included.
C6_RawType ==
  last.op = "getDeviceType" =>
    /\ last.ty = device[last.d].type
    /\ how[last.d] = "record" => last.ty = origin[last.d].type

\* C6 witness: getDeviceType returned an out-of-range value the caller supplied.
C6_Witness ==
  /\ last.op = "getDeviceType"
  /\ how[last.d] = "record"
  /\ origin[last.d].type > TIS_DEVICE_TYPE_FIREWIRE
  /\ last.ty = origin[last.d].type

\* C7: the record getInfo returned is independent of the descriptor: a change
\* the caller makes to it changes no descriptor, and an assignment to a
\* descriptor leaves the caller's record as it is.
C7_CopyIndependent ==
  [][ /\ last'.op = "mutate" => device' = device
      /\ last'.op \in {"assign", "chain"} => copy' = copy ]_vars

\* C7 witness: the caller holds a record taken from d, d has been assigned
\* since, and the two differ.
C7_Witness ==
  /\ copy.held
  /\ last.op = "assign"
  /\ last.d = copy.of
  /\ copy.val # device[copy.of]

\* C8: every accessor returns a defined result determined by the wrapped record
\* alone: a text accessor returns without fault and yields bytes of its own
\* array only, also when the array holds no NUL byte.
C8_Total ==
  last.op \in TextOps =>
    /\ last.ok
    /\ Len(last.str) <= FieldCap
    /\ \A i \in 1..Len(last.str) :
         i <= FieldCap => last.str[i] = FieldOf(last.op, device[last.d])[i]

\* C9: an accessor call leaves the record of every descriptor unchanged, and
\* the same accessor called twice in a row on the same descriptor returns the
\* same result.
C9_ReadOnly ==
  [][ last'.op \in Accessors =>
        /\ device' = device
        /\ (last.op = last'.op /\ last.d = last'.d) =>
             (last' = last /\ copy' = copy) ]_vars

\* C10: a record changes only as a whole: every constructed descriptor holds, in
\* all four fields, the record it was constructed with or the record its source
\* held at its most recent assignment; self-assignment changes nothing;
\* operator= returns the assigned-to descriptor, and after a = (b = c) all of
\* a, b and c hold the record c held.
C10_WholeRecord ==
  [][ /\ \A d \in Descs : live'[d] => FieldEqual(device'[d], origin'[d])
      /\ (last'.op = "assign" /\ last'.d = last'.o) => device' = device
      /\ last'.op = "assign" =>
           operatorAssign(device, last'.d, last'.o).ret = last'.d
      /\ last'.op = "chain" =>
           /\ FieldEqual(device'[last'.d], device[last'.o2])
           /\ FieldEqual(device'[last'.o], device[last'.o2])
           /\ FieldEqual(device'[last'.o2], device[last'.o2]) ]_vars

\* C10 witness: a chained assignment over three different descriptors has run
\* and all three hold one of the records handed to a constructor.
C10_Witness ==
  /\ last.op = "chain"
  /\ Cardinality({last.d, last.o, last.o2}) = 3
  /\ device[last.d] \in SmallRecords
  /\ device[last.d] = device[last.o2]
  /\ device[last.o] = device[last.o2]

====
